---- MODULE Spec2Model ----
(***************************************************************************)
(* A model of src/process_pdfs.py: the two-tier text extraction            *)
(* (pdfplumber, then PyPDF2), the document-structure heuristic, the        *)
(* per-file boundary of process_single_pdf and the driving loop of         *)
(* process_pdfs under main.                                                *)
(*                                                                         *)
(* A Python str is a sequence of one-character strings.  The characters    *)
(* used are two upper-case letters, two lower-case letters, one uncased    *)
(* character and three kinds of whitespace.                                *)
(***************************************************************************)
EXTENDS Integers, Sequences, FiniteSets, TLC

VARIABLES
    pc,               \* position of the run inside main / process_pdfs / process_single_pdf
    num_input,        \* number of *.pdf files lying in the input directory
    output_exists,    \* whether the output directory exists
    output_files,     \* the output directory: file name -> file content
    output_exists0,   \* output_exists when the run began
    output_files0,    \* output_files when the run began
    pdf_files,        \* process_pdfs: list(input_dir.glob("*.pdf"))
    idx,              \* process_pdfs: position of the for loop in pdf_files
    successful,       \* process_pdfs: counter
    failed,           \* process_pdfs: counter
    calls,            \* file -> number of calls of process_single_pdf on it
    counted,          \* file -> "no" | "successful" | "failed"
    raised,           \* files whose processing reached the except clause of process_single_pdf
    pdf,              \* the PDF document behind the file being processed
    plumber_calls,    \* calls of extract_text_with_pdfplumber for the current file
    pypdf2_calls,     \* calls of extract_text_with_pypdf2 for the current file
    plumber_data,     \* what extract_text_with_pdfplumber returned for the current file
    pdf_data,         \* process_single_pdf: pdf_data
    structured_data,  \* process_single_pdf: structured_data
    output_data,      \* process_single_pdf: output_data
    exception,        \* what raised inside the try of the current call: "none" | "analysis" | "open" | "dump"
    interrupted       \* a KeyboardInterrupt was delivered

vars == <<pc, num_input, output_exists, output_files, output_exists0, output_files0,
          pdf_files, idx, successful, failed, calls, counted, raised, pdf,
          plumber_calls, pypdf2_calls, plumber_data, pdf_data, structured_data,
          output_data, exception, interrupted>>

\* ------------------------------------------------------------------ bounds

MaxFiles == 2       \* PDF files in the input directory
MaxPdfPages == 2    \* pages of a PDF read by the driving loop
MaxPages == 2       \* pages of a DocumentRecord handed to the analyzer alone

\* ------------------------------------------------------- program constants

MaxHeadingWords == 10    \* len(words_in_line) <= 10 / > 10
HeadingLimit == 10       \* headings[:10]
ParagraphLimit == 5      \* paragraphs[:5]
FallbackPages == 1       \* "total_pages": 1 of the fallback record

\* ------------------------------------------------------------ Python str

NL == "\n"
SP == " "
TAB == "\t"
Whitespace == {SP, NL, TAB}
UpperChars == {"A", "B"}
LowerChars == {"a", "b"}
None == <<"None">>     \* Python's None where a str is expected; no str equals it

Min(a, b) == IF a <= b THEN a ELSE b

\* x or d
Or(x, d) == IF x = None \/ x = <<>> THEN d ELSE x

\* the k-th smallest element of a finite set of integers
Nth(S, k) == CHOOSE i \in S : Cardinality({j \in S : j < i}) = k - 1

\* str.split(sep) for a one-character sep: the pieces between separators, empty ones kept
SplitOn(s, sep) ==
    LET at     == {i \in 1..Len(s) : s[i] = sep}
        n      == Cardinality(at)
        Cut(k) == IF k = 0 THEN 0 ELSE IF k = n + 1 THEN Len(s) + 1 ELSE Nth(at, k)
    IN  [k \in 1..(n + 1) |-> SubSeq(s, Cut(k - 1) + 1, Cut(k) - 1)]

\* str.split(): maximal runs of non-whitespace characters
Split(s) ==
    LET Blank(i) == i < 1 \/ i > Len(s) \/ s[i] \in Whitespace
        starts   == {i \in 1..Len(s) : ~Blank(i) /\ Blank(i - 1)}
        ends     == {i \in 1..Len(s) : ~Blank(i) /\ Blank(i + 1)}
    IN  [k \in 1..Cardinality(starts) |-> SubSeq(s, Nth(starts, k), Nth(ends, k))]

\* str.strip(): leading and trailing whitespace removed
Strip(s) ==
    LET keep == {i \in 1..Len(s) : s[i] \notin Whitespace}
    IN  IF keep = {} THEN <<>>
        ELSE LET lo == CHOOSE i \in keep : \A j \in keep : i <= j
                 hi == CHOOSE i \in keep : \A j \in keep : j <= i
             IN  SubSeq(s, lo, hi)

\* str.isupper(): no lower-case character and at least one cased character
IsUpper(s) ==
    /\ \A i \in 1..Len(s) : s[i] \notin LowerChars
    /\ \E i \in 1..Len(s) : s[i] \in UpperChars

\* str.istitle(): upper-case characters follow only uncased characters, lower-case
\* characters follow only cased ones, and there is at least one cased character
IsTitle(s) ==
    LET Cased(i) == i >= 1 /\ s[i] \in (UpperChars \cup LowerChars)
    IN  /\ \A i \in 1..Len(s) : s[i] \in UpperChars => ~Cased(i - 1)
        /\ \A i \in 1..Len(s) : s[i] \in LowerChars => Cased(i - 1)
        /\ \E i \in 1..Len(s) : Cased(i)

\* ------------------------------------------ analyze_document_structure

\* the branch of the loop body that appends to headings
IsHeadingLine(line) ==
    /\ line # <<>>
    /\ Len(Split(line)) <= MaxHeadingWords
    /\ (IsUpper(line) \/ IsTitle(line))

\* the elif branch of the loop body that appends to paragraphs
IsParagraphLine(line) ==
    /\ line # <<>>
    /\ ~IsHeadingLine(line)
    /\ Len(Split(line)) > MaxHeadingWords

\* for line in lines: ... ; the result is the pair of lists after the loop
RECURSIVE ClassifyLines(_, _, _, _)
ClassifyLines(lines, i, headings, paragraphs) ==
    IF i > Len(lines) THEN [headings |-> headings, paragraphs |-> paragraphs]
    ELSE LET line == Strip(lines[i])
         IN  IF IsHeadingLine(line)
                THEN ClassifyLines(lines, i + 1, Append(headings, line), paragraphs)
             ELSE IF IsParagraphLine(line)
                THEN ClassifyLines(lines, i + 1, headings, Append(paragraphs, line))
             ELSE ClassifyLines(lines, i + 1, headings, paragraphs)

\* for page in pages: if page.get("tables"): all_tables.extend(page["tables"])
RECURSIVE AllTables(_, _)
AllTables(pages, i) ==
    IF i > Len(pages) THEN <<>>
    ELSE pages[i].tables \o AllTables(pages, i + 1)

\* headings[:10]
HeadingsSlice(headings) == SubSeq(headings, 1, Min(HeadingLimit, Len(headings)))

\* a faulty variant of ParagraphsSlice: the headings' limit used for the paragraphs
ParagraphsSlice_ten(paragraphs) == SubSeq(paragraphs, 1, Min(HeadingLimit, Len(paragraphs)))

\* paragraphs[:5]
ParagraphsSlice(paragraphs) == SubSeq(paragraphs, 1, Min(ParagraphLimit, Len(paragraphs)))

\* the summary returned when full_text is empty
FailedSummary ==
    [document_stats |-> [total_pages |-> 0, word_count |-> 0, character_count |-> 0,
                         paragraph_count |-> 0, table_count |-> 0],
     content_structure |-> [headings |-> <<>>, paragraphs |-> <<>>, tables |-> <<>>],
     metadata |-> [extraction_method |-> "failed", processing_timestamp |-> "time"]]

\* the summary computed from a non-empty full_text
TextSummary(data) ==
    LET full_text  == data.full_text
        found      == ClassifyLines(SplitOn(full_text, NL), 1, <<>>, <<>>)
        all_tables == AllTables(data.pages, 1)
    IN  [document_stats |-> [total_pages |-> data.total_pages,
                             word_count |-> Len(Split(full_text)),
                             character_count |-> Len(full_text),
                             paragraph_count |-> Len(found.paragraphs),
                             table_count |-> Len(all_tables)],
         content_structure |-> [headings |-> HeadingsSlice(found.headings),
                                paragraphs |-> ParagraphsSlice(found.paragraphs),
                                tables |-> all_tables],
         metadata |-> [extraction_method |-> "pdfplumber",
                       processing_timestamp |-> "time"]]

\* a faulty variant of analyze_document_structure: the empty-text guard is missing
analyze_document_structure_no_guard(data) == TextSummary(data)

analyze_document_structure(data) ==
    IF data.full_text = <<>> THEN FailedSummary ELSE TextSummary(data)

\* ------------------------------------------------------- PDF documents

\* A PDF as the two libraries see it: whether pdfplumber.open / PyPDF2.PdfReader (or
\* a later call into PyPDF2) raises, and for every page the text page.extract_text()
\* yields (None when the page has none), the grids page.extract_tables() yields, and
\* whether page.extract_tables() raises.
PageWidth == "width"      \* page.width, a number the analysis never reads
PageHeight == "height"    \* page.height

Page(text, tables, tables_raise) ==
    [text |-> text, tables |-> tables, tables_raise |-> tables_raise]

Document(open_raises, reader_raises, pages) ==
    [open_raises |-> open_raises, reader_raises |-> reader_raises, pages |-> pages]

\* {"total_pages": 0, "full_text": "", "pages": []}
Sentinel == [total_pages |-> 0, full_text |-> <<>>, pages |-> <<>>]

\* a faulty variant of PlumberLoop: total_text += page_text, without the newline
RECURSIVE PlumberLoop_no_newline(_, _, _, _)
PlumberLoop_no_newline(pages, page_num, total_text, pages_data) ==
    IF page_num > Len(pages)
    THEN [raised |-> FALSE, total_text |-> total_text, pages_data |-> pages_data]
    ELSE LET page      == pages[page_num]
             page_text == Or(page.text, <<>>)
         IN  IF page.tables_raise
             THEN [raised |-> TRUE, total_text |-> total_text \o page_text,
                   pages_data |-> pages_data]
             ELSE PlumberLoop_no_newline(pages, page_num + 1, total_text \o page_text,
                      Append(pages_data,
                             [page_number |-> page_num, text |-> page_text,
                              tables |-> Or(page.tables, <<>>),
                              width |-> PageWidth, height |-> PageHeight]))

\* for page_num, page in enumerate(pdf.pages, 1): ... ; stops where a page raises
RECURSIVE PlumberLoop(_, _, _, _)
PlumberLoop(pages, page_num, total_text, pages_data) ==
    IF page_num > Len(pages)
    THEN [raised |-> FALSE, total_text |-> total_text, pages_data |-> pages_data]
    ELSE LET page      == pages[page_num]
             page_text == Or(page.text, <<>>)
         IN  IF page.tables_raise
             THEN [raised |-> TRUE, total_text |-> total_text \o page_text \o <<NL>>,
                   pages_data |-> pages_data]
             ELSE PlumberLoop(pages, page_num + 1, total_text \o page_text \o <<NL>>,
                      Append(pages_data,
                             [page_number |-> page_num, text |-> page_text,
                              tables |-> Or(page.tables, <<>>),
                              width |-> PageWidth, height |-> PageHeight]))

\* a faulty variant of extract_text_with_pdfplumber: an exception inside the page loop
\* is swallowed and the pages read so far are returned
extract_text_with_pdfplumber_partial(doc) ==
    IF doc.open_raises THEN Sentinel
    ELSE LET r == PlumberLoop(doc.pages, 1, <<>>, <<>>)
         IN  [total_pages |-> Len(doc.pages), full_text |-> r.total_text,
              pages |-> r.pages_data]

extract_text_with_pdfplumber(doc) ==
    IF doc.open_raises THEN Sentinel
    ELSE LET r == PlumberLoop(doc.pages, 1, <<>>, <<>>)
         IN  IF r.raised THEN Sentinel
             ELSE [total_pages |-> Len(doc.pages), full_text |-> r.total_text,
                   pages |-> r.pages_data]

\* for page in pdf_reader.pages: text += page.extract_text() + "\n"
\* (PyPDF2's extract_text returns a str, "" for a page without text; whatever raises
\* inside the try, a TypeError included, is the document's reader_raises)
RECURSIVE PyPdf2Loop(_, _)
PyPdf2Loop(pages, i) ==
    IF i > Len(pages) THEN <<>>
    ELSE Or(pages[i].text, <<>>) \o <<NL>> \o PyPdf2Loop(pages, i + 1)

extract_text_with_pypdf2(doc) ==
    IF doc.reader_raises THEN <<>> ELSE PyPdf2Loop(doc.pages, 1)

\* a faulty variant of NeedsFallback: the fallback is taken whatever the primary returned
NeedsFallback_always(data) == TRUE

\* if not pdf_data.get("full_text"):
NeedsFallback(data) == data.full_text = <<>>

\* the record process_single_pdf builds from fallback_text
FallbackRecord(fallback_text) ==
    [total_pages |-> FallbackPages, full_text |-> fallback_text,
     pages |-> <<[page_number |-> 1, text |-> fallback_text, tables |-> <<>>]>>]

\* a faulty variant of OutputRecord: the extracted record is spread into the output too
OutputRecord_with_pdf_data(file, data, summary) ==
    [filename |-> file, processing_time |-> "elapsed"] @@ data @@ summary

\* {"filename": ..., "processing_time": ..., **structured_data}
\* (pdf_data is in scope at line 164 and is not spread into the record)
OutputRecord(file, data, summary) ==
    [filename |-> file, processing_time |-> "elapsed"] @@ summary

\* a faulty variant of MkdirExistOk: the directory is created afresh, empty
MkdirExistOk_recreate(dir) == [exists |-> TRUE, files |-> <<>>]

\* Path.mkdir(exist_ok=True) on a directory [exists, files]
MkdirExistOk(dir) == [exists |-> TRUE, files |-> dir.files]

\* ------------------------------------------------------------ inputs

RECURSIVE Rep(_, _)
Rep(word, n) == IF n = 1 THEN word ELSE word \o <<SP>> \o Rep(word, n - 1)

\* six heading lines: AB / Ab Ab / A1 with blanks around it / B / A B / Ba
HeadText == <<"A", "B", NL, "A", "b", SP, "A", "b", NL, SP, "A", "1", TAB, NL, "B", NL,
              "A", SP, "B", NL, "B", "a">>
\* three paragraph lines, of 11, 12 and 11 words; the last one is in title case
ParaText == Rep(<<"a">>, 11) \o <<NL>> \o <<"A", SP>> \o Rep(<<"b">>, 11) \o <<NL>>
            \o Rep(<<"A", "b">>, 11)
\* a discarded line, a blank line, a 10-word heading, an 11-word upper-case line, a
\* mixed-case line, three more headings and one more paragraph line
MixText  == <<"a", "b", NL, SP, NL>> \o Rep(<<"A">>, 10) \o <<NL>> \o Rep(<<"A">>, 11)
            \o <<NL, "a", "B", SP, "1", NL, "B", NL, "A", "b", NL, TAB, "A", "1", NL>>
            \o Rep(<<"b">>, 11)

Grid1 == "T1"
Grid2 == "T2"

RECURSIVE SeqsUpTo(_, _)
SeqsUpTo(S, n) ==
    IF n = 0 THEN {<<>>}
    ELSE LET shorter == SeqsUpTo(S, n - 1)
         IN  shorter \cup {Append(s, x) : s \in {t \in shorter : Len(t) = n - 1}, x \in S}

\* the pages of the PDFs the driving loop reads
DriverPages ==
    {Page(None, <<>>, FALSE), Page(<<"A", "B">>, <<>>, FALSE),
     Page(<<"A", "B">>, <<Grid1>>, FALSE), Page(<<"A", "B">>, <<>>, TRUE)}

Pdfs ==
    {Document(o, r, ps) : o \in BOOLEAN, r \in BOOLEAN, ps \in SeqsUpTo(DriverPages, MaxPdfPages)}

\* the pages of the records handed to the analyzer alone
AnalyzerPages ==
    {Page(None, <<>>, FALSE), Page(None, <<Grid1>>, FALSE),
     Page(HeadText, <<>>, FALSE),
     Page(HeadText \o <<NL>> \o ParaText, <<Grid1, Grid2>>, FALSE),
     Page(ParaText, <<>>, FALSE), Page(MixText, <<Grid2>>, FALSE)}

\* every record the primary backend can return for these pages, the same records with
\* full_text emptied, and every record the fallback path can build
DocumentRecords ==
    LET plumber == {extract_text_with_pdfplumber(Document(FALSE, FALSE, ps)) :
                        ps \in SeqsUpTo(AnalyzerPages, MaxPages)}
    IN  plumber
        \cup {[d EXCEPT !.full_text = <<>>] : d \in plumber}
        \cup {FallbackRecord(d.full_text) : d \in plumber}

Null == [null |-> TRUE]
OldFile == [state |-> "old"]
PartialFile == [state |-> "partial"]
\* a complete JSON file: the object's filename member and its top-level keys
JsonFile(data) == [state |-> "json", filename |-> data.filename, keys |-> DOMAIN data]

Files == 1..MaxFiles
OutputFileName(file) == file     \* output_dir / f"{pdf_path.stem}.json"
OtherFileName == MaxFiles + 1    \* a file of the output directory that no input PDF names

\* ------------------------------------------------------------ the run

\* The state when main is entered: some *.pdf files in the input directory, an output
\* directory that may not exist yet or may hold files of an earlier run.
Init ==
    /\ pc = "start"
    /\ num_input \in 0..MaxFiles
    /\ output_exists \in BOOLEAN
    /\ output_files \in
         IF output_exists
         THEN {[n \in S |-> OldFile] : S \in {{}, {OutputFileName(1), OtherFileName}}}
         ELSE {<<>>}
    /\ output_exists0 = output_exists
    /\ output_files0 = output_files
    /\ pdf_files = <<>>
    /\ idx = 1
    /\ successful = 0
    /\ failed = 0
    /\ calls = [f \in Files |-> 0]
    /\ counted = [f \in Files |-> "no"]
    /\ raised = {}
    /\ pdf = Null
    /\ plumber_calls = 0
    /\ pypdf2_calls = 0
    /\ plumber_data = Null
    /\ pdf_data = Null
    /\ structured_data = Null
    /\ output_data = Null
    /\ exception = "none"
    /\ interrupted = FALSE

file_vars == <<pdf, plumber_calls, pypdf2_calls, plumber_data, pdf_data,
               structured_data, output_data, exception>>
dir_vars == <<num_input, output_exists, output_files, output_exists0, output_files0>>
loop_vars == <<pdf_files, idx, successful, failed, calls, counted, raised>>

\* process_pdfs, lines 185-190: input_dir.mkdir(exist_ok=True); output_dir.mkdir(exist_ok=True)
MakeDirs ==
    /\ pc = "start"
    /\ LET dir == MkdirExistOk([exists |-> output_exists, files |-> output_files])
       IN  /\ output_exists' = dir.exists
           /\ output_files' = dir.files
    /\ pc' = "scan"
    /\ UNCHANGED <<num_input, output_exists0, output_files0, loop_vars, file_vars, interrupted>>

\* process_pdfs, lines 197-222: the glob finds nothing, guidance is printed, return
ScanNoPdfs ==
    /\ pc = "scan"
    /\ num_input = 0
    /\ pdf_files' = <<>>
    /\ pc' = "done"
    /\ UNCHANGED <<dir_vars, idx, successful, failed, calls, counted, raised,
                   file_vars, interrupted>>

\* process_pdfs, lines 197-230: the glob finds files, the counters are set to 0
ScanFound ==
    /\ pc = "scan"
    /\ num_input > 0
    /\ pdf_files' = [i \in 1..num_input |-> i]
    /\ successful' = 0
    /\ failed' = 0
    /\ idx' = 1
    /\ pc' = "loop"
    /\ UNCHANGED <<dir_vars, calls, counted, raised, file_vars, interrupted>>

\* for pdf_file in pdf_files: process_single_pdf(pdf_file, output_dir) is entered
\* (lines 232-233, 142-144); the file turns out to hold some PDF
BeginFile ==
    /\ pc = "loop"
    /\ idx <= Len(pdf_files)
    /\ calls' = [calls EXCEPT ![pdf_files[idx]] = @ + 1]
    /\ pdf' \in Pdfs
    /\ plumber_calls' = 0
    /\ pypdf2_calls' = 0
    /\ plumber_data' = Null
    /\ pdf_data' = Null
    /\ structured_data' = Null
    /\ output_data' = Null
    /\ exception' = "none"
    /\ pc' = "primary"
    /\ UNCHANGED <<dir_vars, pdf_files, idx, successful, failed, counted, raised, interrupted>>

\* line 147: pdf_data = extract_text_with_pdfplumber(pdf_path); line 150 decides the fallback
ExtractPrimary ==
    /\ pc = "primary"
    /\ pdf_data' = extract_text_with_pdfplumber(pdf)
    /\ plumber_data' = pdf_data'
    /\ plumber_calls' = plumber_calls + 1
    /\ pc' = IF NeedsFallback(pdf_data') THEN "fallback" ELSE "analyze"
    /\ UNCHANGED <<dir_vars, loop_vars, pdf, pypdf2_calls, structured_data, output_data,
                   exception, interrupted>>

\* lines 151-157: fallback_text = extract_text_with_pypdf2(pdf_path); pdf_data = {...}
ExtractFallback ==
    /\ pc = "fallback"
    /\ pdf_data' = FallbackRecord(extract_text_with_pypdf2(pdf))
    /\ pypdf2_calls' = pypdf2_calls + 1
    /\ pc' = "analyze"
    /\ UNCHANGED <<dir_vars, loop_vars, pdf, plumber_calls, plumber_data, structured_data,
                   output_data, exception, interrupted>>

\* line 161: structured_data = analyze_document_structure(pdf_data)
Analyze ==
    /\ pc = "analyze"
    /\ structured_data' = analyze_document_structure(pdf_data)
    /\ pc' = "serialize"
    /\ UNCHANGED <<dir_vars, loop_vars, pdf, plumber_calls, pypdf2_calls, plumber_data,
                   pdf_data, output_data, exception, interrupted>>

\* line 161 raises an Exception (MemoryError, say): control passes to line 178
AnalyzeRaises ==
    /\ pc = "analyze"
    /\ exception' = "analysis"
    /\ pc' = "except"
    /\ UNCHANGED <<dir_vars, loop_vars, pdf, plumber_calls, pypdf2_calls, plumber_data,
                   pdf_data, structured_data, output_data, interrupted>>

\* lines 164-172: output_data is built and open(output_file, 'w') creates or truncates
\* the file
OpenOutput ==
    /\ pc = "serialize"
    /\ output_exists
    /\ output_data' = OutputRecord(pdf_files[idx], pdf_data, structured_data)
    /\ output_files' = (OutputFileName(pdf_files[idx]) :> PartialFile) @@ output_files
    /\ pc' = "dump"
    /\ UNCHANGED <<num_input, output_exists, output_exists0, output_files0, loop_vars, pdf,
                   plumber_calls, pypdf2_calls, plumber_data, pdf_data, structured_data,
                   exception, interrupted>>

\* line 172: open raises an OSError (no permission, say): control passes to line 178
OpenRaises ==
    /\ pc = "serialize"
    /\ output_data' = OutputRecord(pdf_files[idx], pdf_data, structured_data)
    /\ exception' = "open"
    /\ pc' = "except"
    /\ UNCHANGED <<dir_vars, loop_vars, pdf, plumber_calls, pypdf2_calls, plumber_data,
                   pdf_data, structured_data, interrupted>>

\* line 173: json.dump writes the record and the file is closed
Dump ==
    /\ pc = "dump"
    /\ output_files' = [output_files EXCEPT ![OutputFileName(pdf_files[idx])] =
                            JsonFile(output_data)]
    /\ pc' = "return_true"
    /\ UNCHANGED <<num_input, output_exists, output_exists0, output_files0, loop_vars,
                   file_vars, interrupted>>

\* line 173: json.dump raises an Exception (disk full, say), the file stays incomplete
DumpRaises ==
    /\ pc = "dump"
    /\ exception' = "dump"
    /\ pc' = "except"
    /\ UNCHANGED <<dir_vars, loop_vars, pdf, plumber_calls, pypdf2_calls, plumber_data,
                   pdf_data, structured_data, output_data, interrupted>>

\* the for loop's bookkeeping after process_single_pdf returned `result`
Count(result) ==
    /\ successful' = IF result THEN successful + 1 ELSE successful
    /\ failed' = IF result THEN failed ELSE failed + 1
    /\ counted' = [counted EXCEPT ![pdf_files[idx]] =
                       IF result THEN "successful" ELSE "failed"]
    /\ idx' = idx + 1
    /\ pc' = "loop"

\* lines 175-176 and 233-234: return True; successful += 1
ReturnTrue ==
    /\ pc = "return_true"
    /\ Count(TRUE)
    /\ UNCHANGED <<dir_vars, pdf_files, calls, raised, file_vars, interrupted>>

\* a faulty variant of ReturnFalse: the except clause returns True
ReturnFalse_as_success ==
    /\ pc = "except"
    /\ raised' = raised \cup {pdf_files[idx]}
    /\ Count(TRUE)
    /\ UNCHANGED <<dir_vars, pdf_files, calls, file_vars, interrupted>>

\* lines 178-180 and 235-236: except Exception: log, return False; failed += 1
ReturnFalse ==
    /\ pc = "except"
    /\ raised' = raised \cup {pdf_files[idx]}
    /\ Count(FALSE)
    /\ UNCHANGED <<dir_vars, pdf_files, calls, file_vars, interrupted>>

\* lines 238-257: the loop is over, the summary is printed, process_pdfs returns
Summary ==
    /\ pc = "loop"
    /\ idx > Len(pdf_files)
    /\ pc' = "done"
    /\ UNCHANGED <<dir_vars, loop_vars, file_vars, interrupted>>

InFile == pc \in {"primary", "fallback", "analyze", "serialize", "dump", "return_true", "except"}
Running == pc \in {"start", "scan", "loop"} \/ InFile

\* a faulty variant of Interrupt: process_single_pdf catches BaseException, so an
\* interrupt inside a file is handled like any failure of that file
Interrupt_caught_per_file ==
    /\ Running
    /\ interrupted' = TRUE
    /\ pc' = IF InFile THEN "except" ELSE "interrupted"
    /\ UNCHANGED <<dir_vars, loop_vars, file_vars>>

\* A KeyboardInterrupt is raised in the main thread wherever the run is.  It is a
\* BaseException, so no `except Exception` (lines 35, 67, 178) catches it; it unwinds
\* to main, line 263, which prints a message and returns.
Interrupt ==
    /\ Running
    /\ interrupted' = TRUE
    /\ pc' = "interrupted"
    /\ UNCHANGED <<dir_vars, loop_vars, file_vars>>

Next ==
    \/ MakeDirs
    \/ ScanNoPdfs
    \/ ScanFound
    \/ BeginFile
    \/ ExtractPrimary
    \/ ExtractFallback
    \/ Analyze
    \/ AnalyzeRaises
    \/ OpenOutput
    \/ OpenRaises
    \/ Dump
    \/ DumpRaises
    \/ ReturnTrue
    \/ ReturnFalse
    \/ Summary
    \/ Interrupt

Spec == Init /\ [][Next]_vars

\* ------------------------------------------- the analyzer on its own

\* analyze_document_structure is about to be called on some DocumentRecord
InitAnalyze ==
    /\ pc = "analyze"
    /\ num_input = 1
    /\ output_exists = TRUE
    /\ output_files = <<>>
    /\ output_exists0 = TRUE
    /\ output_files0 = <<>>
    /\ pdf_files = <<1>>
    /\ idx = 1
    /\ successful = 0
    /\ failed = 0
    /\ calls = [f \in Files |-> IF f = 1 THEN 1 ELSE 0]
    /\ counted = [f \in Files |-> "no"]
    /\ raised = {}
    /\ pdf = Null
    /\ plumber_calls = 1
    /\ pypdf2_calls = 0
    /\ plumber_data = Null
    /\ pdf_data \in DocumentRecords
    /\ structured_data = Null
    /\ output_data = Null
    /\ exception = "none"
    /\ interrupted = FALSE

NextAnalyze == Analyze

SpecAnalyze == InitAnalyze /\ [][NextAnalyze]_vars

\* ------------------------------------------------------------ properties

\* positions of process_single_pdf after the extraction (lines 147-157) is over
PastExtraction == pc \in {"analyze", "serialize", "dump", "return_true", "except"}
\* positions at which `pdf` and the per-file variables describe a file already handed
\* to process_single_pdf
FileKnown == InFile \/ (pc \in {"loop", "done"} /\ idx > 1)
Uncounted == {f \in Files : calls[f] > 0 /\ counted[f] = "no"}

C2_TwoAttemptsAtMost ==
    /\ plumber_calls <= 1
    /\ pypdf2_calls <= 1
    /\ PastExtraction => plumber_calls = 1
    /\ (plumber_calls = 1 /\ plumber_data.full_text # <<>>) => pypdf2_calls = 0

\* a file went through with the primary backend's text and no fallback call
C2_Witness ==
    /\ pc = "return_true"
    /\ plumber_calls = 1
    /\ plumber_data.full_text # <<>>
    /\ pypdf2_calls = 0

\* the primary backend has no usable text for the document: it raises, the PDF has no
\* page, or every page yields no text
NoUsableText(doc) ==
    \/ doc.open_raises
    \/ \E i \in 1..Len(doc.pages) : doc.pages[i].tables_raise
    \/ Len(doc.pages) = 0
    \/ \A i \in 1..Len(doc.pages) : Or(doc.pages[i].text, <<>>) = <<>>

\* C3: whenever the primary backend yields no usable text for a file (it raises, the
\* PDF has zero pages, or every page yields empty text), process_single_pdf invokes the
\* fallback backend for that file.
C3_FallbackWhenNoUsableText ==
    (PastExtraction /\ NoUsableText(pdf)) => pypdf2_calls = 1

SchemaKeys == {"filename", "processing_time", "total_pages", "full_text", "pages",
               "document_stats", "content_structure", "metadata"}
WrittenKeys == {"filename", "processing_time", "document_stats", "content_structure",
                "metadata"}
JsonFiles == {n \in DOMAIN output_files : output_files[n].state = "json"}

\* C4 as stated: every JSON record written for a successfully processed file has the
\* top-level keys filename, processing_time, total_pages, full_text, pages,
\* document_stats, content_structure and metadata.
C4_SchemaKeys ==
    \A n \in JsonFiles : output_files[n].keys = SchemaKeys

\* C4 as amended: every JSON record written has exactly the top-level keys filename,
\* processing_time, document_stats, content_structure and metadata, whichever backend
\* produced the text; total_pages is a member of document_stats only.
C4_WrittenKeys ==
    /\ \A n \in JsonFiles : output_files[n].keys = WrittenKeys
    /\ pc = "return_true" =>
          /\ output_files[OutputFileName(pdf_files[idx])] = JsonFile(output_data)
          /\ DOMAIN output_data = WrittenKeys
          /\ "total_pages" \in DOMAIN output_data.document_stats
          /\ output_data.filename = pdf_files[idx]

\* a record was written from the fallback backend's text
C4_Witness ==
    /\ pc = "return_true"
    /\ pypdf2_calls = 1
    /\ pdf_data.full_text # <<>>
    /\ output_files[OutputFileName(pdf_files[idx])].state = "json"

\* the primary backend read the text of some page and then raised in extract_tables,
\* and the fallback backend does not raise
TableExtractionRaises(doc) ==
    /\ ~doc.open_raises
    /\ ~doc.reader_raises
    /\ \E i \in 1..Len(doc.pages) :
          doc.pages[i].tables_raise /\ Or(doc.pages[i].text, <<>>) # <<>>

\* C5: a file whose primary extraction raises during table extraction while text
\* extraction succeeds is recorded as successful (unless analysis or serialization
\* raises), and every page of the record that is analyzed has tables = [].
C5_TableFailureStillSuccessful ==
    (FileKnown /\ TableExtractionRaises(pdf)) =>
        /\ PastExtraction =>
              /\ pdf_data.full_text # <<>>
              /\ Len(pdf_data.pages) >= 1
              /\ \A i \in 1..Len(pdf_data.pages) : pdf_data.pages[i].tables = <<>>
        /\ pc = "except" => exception # "none"
        /\ pc \in {"serialize", "dump", "return_true"} =>
              structured_data.content_structure.tables = <<>>
        /\ (pc \in {"loop", "done"} /\ exception = "none") =>
              /\ counted[pdf_files[idx - 1]] = "successful"
              /\ output_files[OutputFileName(pdf_files[idx - 1])].state = "json"

\* page 1 gave text and a table, page 2 raised in extract_tables, and the file was
\* counted successful
C5_Witness ==
    /\ pc = "loop"
    /\ idx > 1
    /\ TableExtractionRaises(pdf)
    /\ Len(pdf.pages) = 2
    /\ pdf.pages[1].tables # <<>>
    /\ pdf.pages[2].tables_raise
    /\ counted[pdf_files[idx - 1]] = "successful"
    /\ successful >= 1

\* C6 as stated: with zero *.pdf files a run of process_pdfs leaves the output
\* directory exactly as it was (same existence, same files, same contents), writes no
\* JSON file and never calls process_single_pdf.
C6_OutputDirUntouched ==
    (pc = "done" /\ num_input = 0) =>
        /\ output_exists = output_exists0
        /\ output_files = output_files0
        /\ \A f \in Files : calls[f] = 0

\* C6 as amended: with zero *.pdf files a run of process_pdfs leaves the files of the
\* output directory and their contents as they were, writes no JSON file and never
\* calls process_single_pdf; the output directory itself exists afterwards, created
\* if it was absent.
C6_OutputFilesUntouched ==
    (pc = "done" /\ num_input = 0) =>
        /\ output_exists
        /\ output_files = output_files0
        /\ JsonFiles = {}
        /\ \A f \in Files : calls[f] = 0

\* a run without PDFs ended with files of an earlier run in the output directory
C6_Witness ==
    /\ pc = "done"
    /\ num_input = 0
    /\ output_files0 # <<>>
    /\ output_exists

\* C7: for a DocumentRecord with empty full_text analyze_document_structure returns
\* word_count, character_count, paragraph_count and table_count 0, empty headings,
\* paragraphs and tables, and extraction_method "failed"; for a non-empty full_text
\* extraction_method is "pdfplumber".
C7_EmptyTextSummary ==
    pc = "serialize" =>
        IF pdf_data.full_text = <<>>
        THEN /\ structured_data.document_stats.word_count = 0
             /\ structured_data.document_stats.character_count = 0
             /\ structured_data.document_stats.paragraph_count = 0
             /\ structured_data.document_stats.table_count = 0
             /\ structured_data.content_structure.headings = <<>>
             /\ structured_data.content_structure.paragraphs = <<>>
             /\ structured_data.content_structure.tables = <<>>
             /\ structured_data.metadata.extraction_method = "failed"
        ELSE structured_data.metadata.extraction_method = "pdfplumber"

\* a record with empty full_text whose pages hold tables was analyzed
C7_Witness ==
    /\ pc = "serialize"
    /\ pdf_data.full_text = <<>>
    /\ \E i \in 1..Len(pdf_data.pages) : pdf_data.pages[i].tables # <<>>
    /\ structured_data.metadata.extraction_method = "failed"

\* the stripped lines of a text, in line order
StrippedLines(text) ==
    LET lines == SplitOn(text, NL) IN [i \in 1..Len(lines) |-> Strip(lines[i])]
HeadingLines(text) == SelectSeq(StrippedLines(text), IsHeadingLine)
ParagraphLines(text) == SelectSeq(StrippedLines(text), IsParagraphLine)

\* C8: headings is the first min(10, h) heading-classified lines in line order and
\* paragraphs the first min(5, p) paragraph-classified lines in line order, so their
\* lengths are at most 10 and 5, while paragraph_count is p, the untruncated count.
C8_TruncatedSamples ==
    pc = "serialize" =>
        LET H == HeadingLines(pdf_data.full_text)
            P == ParagraphLines(pdf_data.full_text)
            headings == structured_data.content_structure.headings
            paragraphs == structured_data.content_structure.paragraphs
        IN  /\ Len(headings) = (IF Len(H) < 10 THEN Len(H) ELSE 10)
            /\ Len(paragraphs) = (IF Len(P) < 5 THEN Len(P) ELSE 5)
            /\ \A k \in 1..Len(headings) : headings[k] = H[k]
            /\ \A k \in 1..Len(paragraphs) : paragraphs[k] = P[k]
            /\ structured_data.document_stats.paragraph_count = Len(P)

\* a text with more than 10 heading lines and more than 5 paragraph lines was analyzed
C8_Witness ==
    /\ pc = "serialize"
    /\ Len(HeadingLines(pdf_data.full_text)) > 10
    /\ Len(structured_data.content_structure.headings) = 10
    /\ structured_data.document_stats.paragraph_count > 5
    /\ Len(structured_data.content_structure.paragraphs) = 5

\* the failure sentinel: an empty full_text comes with total_pages 0 and no pages
SentinelInvariant(data) ==
    data.full_text = <<>> => (data.total_pages = 0 /\ data.pages = <<>>)

\* C9 as stated: every DocumentRecord that process_single_pdf passes to
\* analyze_document_structure, on the primary path and on the fallback path alike,
\* satisfies: if full_text is empty then total_pages is 0 and pages is empty.
C9_SentinelWhenAnalyzed ==
    pc = "analyze" => SentinelInvariant(pdf_data)

\* C9 as amended: every DocumentRecord returned by extract_text_with_pdfplumber
\* satisfies the sentinel invariant; a record passed to analyze_document_structure
\* with empty full_text is always the fallback path's, and it has total_pages 1 and
\* one page with empty text and no tables.
C9_SentinelOfPrimaryOnly ==
    /\ plumber_calls = 1 => SentinelInvariant(plumber_data)
    /\ (pc = "analyze" /\ pypdf2_calls = 0) =>
          (pdf_data = plumber_data /\ pdf_data.full_text # <<>>)
    /\ (pc = "analyze" /\ pypdf2_calls = 1) =>
          (pdf_data.total_pages = 1 /\ Len(pdf_data.pages) = 1)
    /\ (pc = "analyze" /\ pdf_data.full_text = <<>>) =>
          /\ pypdf2_calls = 1
          /\ pdf_data.total_pages = 1
          /\ pdf_data.pages = <<[page_number |-> 1, text |-> <<>>, tables |-> <<>>]>>

\* both backends failed and the record with empty text is about to be analyzed
C9_Witness ==
    /\ pc = "analyze"
    /\ pypdf2_calls = 1
    /\ pdf_data.full_text = <<>>
    /\ plumber_data = Sentinel

\* C10 as stated: an interrupt takes effect only between files; no file is ever left
\* started but neither counted nor completed when the run has stopped.
C10_InterruptBetweenFilesOnly ==
    pc \in {"done", "interrupted"} => Uncounted = {}

\* C10 as amended: an interrupt stops the run where it arrives, also inside a file:
\* nothing catches it before main, the file in progress is left uncounted (its JSON
\* absent, incomplete or complete), and no later file is started.  Only the file in
\* progress is ever uncounted, a run that ends without interrupt counts every file,
\* and a file counted successful has its complete JSON.
C10_InterruptAbandonsCurrentFile ==
    /\ interrupted <=> pc = "interrupted"
    /\ pc = "done" => Uncounted = {}
    /\ Cardinality(Uncounted) <= 1
    /\ \A f \in Uncounted : idx <= Len(pdf_files) /\ f = pdf_files[idx]
    /\ \A f \in Files : (idx <= Len(pdf_files) /\ f > pdf_files[idx]) => calls[f] = 0
    /\ \A f \in Files : counted[f] = "successful" =>
          output_files[OutputFileName(f)].state = "json"

\* the interrupt arrived between open and json.dump: the file is uncounted and its
\* JSON incomplete
C10_Witness ==
    /\ pc = "interrupted"
    /\ idx <= Len(pdf_files)
    /\ Uncounted = {pdf_files[idx]}
    /\ OutputFileName(pdf_files[idx]) \in DOMAIN output_files
    /\ output_files[OutputFileName(pdf_files[idx])].state = "partial"

====
